---- MODULE Spec2Model ----
(***************************************************************************)
(* A model of lib/utils.py of the adversarial-example library: the mask    *)
(* pipeline (find_sign_area, check_mask, load_samples), filter_samples,    *)
(* and the two gradient attacks fg and iterative.                          *)
(*                                                                         *)
(* Arrays are functions over index sets.  Indices are 0-based, as in       *)
(* numpy, wherever an index is a value of the program (del_id, ex_ind,     *)
(* labels, classes); a Python list or a batch is a TLA+ sequence whose     *)
(* element of numpy index i is at position i + 1.                          *)
(***************************************************************************)
EXTENDS Integers, Sequences, FiniteSets, TLC

VARIABLES
    \* find_sign_area / check_mask, called on one image
    fill,        \* ndi.binary_fill_holes(canny(image)): the filled edge image
    mask,        \* the mask under consideration, or NoValue
    mask_src,    \* "none" | "find_sign_area" | "caller": who produced mask
    valid,       \* check_mask(mask); FALSE before the call
    spc,         \* "start" | "masked" | "checked": how far the calls have come
    \* load_samples
    images,      \* read_images(img_dir), each image given by its filled edge image
    labels,      \* read_labels(label_path)
    li,          \* the loop index i of load_samples (0-based)
    ex_ind,      \* list of excluded indices
    masks_full,  \* list of kept masks
    lpc,         \* "idle" | "loop" | "done" | "error"
    lret,        \* the returned tuple, or NoValue
    \* filter_samples
    fx,          \* x: the batch of samples; sample i is the number i
    fy,          \* y: the one-hot true labels
    fpred,       \* model.predict(x): one row of class scores per sample
    fy_target,   \* y_target: <<>> for None, else <<the one-hot target labels>>
    fpc,         \* "idle" | "call" | "done"
    fret,        \* the returned tuple, or NoValue
    \* fg and iterative
    attack,      \* "none" | "fg" | "iterative": the function called
    x,           \* x: the batch of benign samples
    amask,       \* mask: <<>> for None, else <<the batch of masks>>
    target,      \* target
    mag_list,    \* mag_list (fg)
    n_step,      \* n_step (iterative)
    step_size,   \* step_size (iterative)
    ai,          \* i: index of the sample the outer loop is at (0-based)
    step,        \* number of steps of the inner loop taken for sample i
    x_cur,       \* x_cur (iterative)
    x_adv,       \* x_adv
    loc,         \* <<>>, or <<the locals g, signed, masked, nrm, grad of the last gradient step>>
    apc          \* "idle" | "sample" | "step" | "done"

signVars == <<fill, mask, mask_src, valid, spc>>
loadVars == <<images, labels, li, ex_ind, masks_full, lpc, lret>>
filterVars == <<fx, fy, fpred, fy_target, fpc, fret>>
attackVars == <<attack, x, amask, target, mag_list, n_step, step_size, ai, step,
                x_cur, x_adv, loc, apc>>
vars == <<signVars, loadVars, filterVars, attackVars>>

NoValue == "none"

----------------------------------------------------------------------------
(* Bounds of the model. *)

\* largest image height and width, and largest number of pixels of an image
MaxH == 2
MaxW == 5
MaxArea == 10
\* largest number of images load_samples reads
MaxImages == 2
\* size of the label space, NUM_LABELS of parameters_yolo.py scaled down from 43
NUM_LABELS == 2
\* largest number of samples in a batch handed to filter_samples
MaxSamples == 2
\* height and width of a sample handed to an attack
SampleH == 1
SampleW == 2
\* largest number of samples in a batch handed to an attack
MaxBatch == 2
\* largest length of mag_list, and largest n_step
MaxMags == 2
MaxStep == 2
\* largest number of gradient evaluations of one call of iterative
MaxGradCalls == 2
\* a float is kept in fixed point: the integer v stands for v / Scale
Scale == 10

\* number of channels (parameters_yolo.py)
N_CHANNEL == 3

----------------------------------------------------------------------------
(* numpy helpers *)

\* the index set of an h x w array, (row, column), 1-based rows and columns
Pix(h, w) == (1..h) \X (1..w)

\* position of pixel p in ravel() order (row-major)
Ravel(p, w) == (p[1] - 1) * w + p[2]

RECURSIVE SetSum(_, _)
\* sum of f over the finite set S
SetSum(f, S) ==
    IF S = {} THEN 0
    ELSE LET e == CHOOSE e \in S : TRUE IN f[e] + SetSum(f, S \ {e})

\* a 2-D array: its shape and its elements
Arr(h, w, a) == [h |-> h, w |-> w, a |-> a]

\* np.sum(mask)
np_sum(m) == SetSum(m.a, Pix(m.h, m.w))

\* the binary h x w arrays
BinaryArrays(h, w) == {Arr(h, w, a) : a \in [Pix(h, w) -> {0, 1}]}

\* the shapes of the model's images
Shapes == {s \in (1..MaxH) \X (1..MaxW) : s[1] * s[2] <= MaxArea}

----------------------------------------------------------------------------
(* ndi.label: connected components of the filled image, 4-connectivity     *)
(* (scipy's default structuring element), numbered 1, 2, ... in the order  *)
(* in which a row-major scan first meets them; background is 0.            *)

Nbrs(p) == {<<p[1] - 1, p[2]>>, <<p[1] + 1, p[2]>>, <<p[1], p[2] - 1>>, <<p[1], p[2] + 1>>}

Foreground(f) == {p \in Pix(f.h, f.w) : f.a[p] # 0}

RECURSIVE Grow(_, _)
\* the connected component of the foreground fg that holds the pixels S
Grow(S, fg) ==
    LET N == S \cup {q \in fg : \E p \in S : q \in Nbrs(p)}
    IN IF N = S THEN S ELSE Grow(N, fg)

RECURSIVE Components(_, _)
\* the components of the foreground fg of an image of width w, in the order
\* in which the scan meets their first pixel
Components(fg, w) ==
    IF fg = {} THEN <<>>
    ELSE LET p == CHOOSE q \in fg : \A r \in fg : Ravel(q, w) <= Ravel(r, w)
             C == Grow({p}, fg)
         IN <<C>> \o Components(fg \ C, w)

ndi_label(f) ==
    LET comps == Components(Foreground(f), f.w)
    IN Arr(f.h, f.w, [p \in Pix(f.h, f.w) |->
                         IF f.a[p] = 0 THEN 0
                         ELSE CHOOSE l \in 1..Len(comps) : p \in comps[l]])

\* what ndi.binary_fill_holes can return: no background pixel is cut off
\* from the border of the image
HoleFree(f) ==
    LET bg == Pix(f.h, f.w) \ Foreground(f)
        border == {p \in bg : p[1] \in {1, f.h} \/ p[2] \in {1, f.w}}
    IN Grow(border, bg) = bg

----------------------------------------------------------------------------
(* find_sign_area, from the filled edge image on *)

SetMax(S) == CHOOSE m \in S : \A k \in S : k <= m

\* np.bincount(a.ravel()): index l holds the number of elements equal to l
np_bincount(a) ==
    LET top == SetMax({a.a[p] : p \in Pix(a.h, a.w)})
    IN [l \in 0..top |-> Cardinality({p \in Pix(a.h, a.w) : a.a[p] = l})]

\* np.argmax of a 1-D array: the first index that holds the maximum
np_argmax(s) ==
    CHOOSE k \in DOMAIN s :
        /\ \A j \in DOMAIN s : s[j] <= s[k]
        /\ \A j \in DOMAIN s : s[j] = s[k] => k <= j

\* (mutant) the background count is left as it is
ZeroBackground_kept(sizes) == sizes

\* sizes[0] = 0
ZeroBackground(sizes) == [sizes EXCEPT ![0] = 0]

find_sign_area(f) ==
    LET label_objects == ndi_label(f)
        sizes0 == np_bincount(label_objects)
        mask_sizes0 == [l \in DOMAIN sizes0 |-> 0]
        sizes == ZeroBackground(sizes0)
        mask_sizes == [mask_sizes0 EXCEPT ![np_argmax(sizes)] = 1]
    IN Arr(f.h, f.w, [p \in Pix(f.h, f.w) |-> mask_sizes[label_objects.a[p]]])

----------------------------------------------------------------------------
(* check_mask.  area_ratio is the quotient of two integers; it is kept as  *)
(* the pair <<numerator, denominator>> and compared exactly.  (For the     *)
(* image sizes at hand the correctly rounded double k / n compares with    *)
(* the literals 0.1 and 0.9 as the exact quotient does with 1/10, 9/10.)   *)

MASK_THRES_MIN == <<1, 10>>
MASK_THRES_MAX == <<9, 10>>

\* a > b and a < b on quotients with positive denominators
RatGT(a, b) == a[1] * b[2] > b[1] * a[2]
RatLT(a, b) == a[1] * b[2] < b[1] * a[2]

area_ratio(m) == <<np_sum(m), m.h * m.w>>

\* (mutant) the lower threshold is inclusive
check_mask_inclusive(m) ==
    ~RatLT(area_ratio(m), MASK_THRES_MIN) /\ RatLT(area_ratio(m), MASK_THRES_MAX)

check_mask(m) ==
    RatGT(area_ratio(m), MASK_THRES_MIN) /\ RatLT(area_ratio(m), MASK_THRES_MAX)

----------------------------------------------------------------------------
(* One image: find_sign_area, then check_mask; or check_mask on a mask the *)
(* caller made.                                                            *)

SignIdle ==
    /\ fill = NoValue /\ mask = NoValue /\ mask_src = "none" /\ valid = FALSE
    /\ spc = "idle"

LoadIdle ==
    /\ images = <<>> /\ labels = <<>> /\ li = 0 /\ ex_ind = <<>>
    /\ masks_full = <<>> /\ lpc = "idle" /\ lret = NoValue

FilterIdle ==
    /\ fx = <<>> /\ fy = <<>> /\ fpred = <<>> /\ fy_target = <<>>
    /\ fpc = "idle" /\ fret = NoValue

AttackIdle ==
    /\ attack = "none" /\ x = <<>> /\ amask = <<>> /\ target = FALSE
    /\ mag_list = <<>> /\ n_step = 0 /\ step_size = 0 /\ ai = 0 /\ step = 0
    /\ x_cur = <<>> /\ x_adv = <<>> /\ loc = <<>> /\ apc = "idle"

InitSign ==
    /\ \E s \in Shapes : fill \in {f \in BinaryArrays(s[1], s[2]) : HoleFree(f)}
    /\ mask = NoValue /\ mask_src = "none" /\ valid = FALSE /\ spc = "start"
    /\ LoadIdle /\ FilterIdle /\ AttackIdle

\* mask = find_sign_area(gray), from the filled edge image on
FindSignArea ==
    /\ spc = "start"
    /\ mask' = find_sign_area(fill)
    /\ mask_src' = "find_sign_area" /\ spc' = "masked"
    /\ UNCHANGED <<fill, valid, loadVars, filterVars, attackVars>>

\* a caller hands check_mask a binary array of its own
CallerMask ==
    /\ spc = "start"
    /\ mask' = fill
    /\ mask_src' = "caller" /\ spc' = "masked"
    /\ UNCHANGED <<fill, valid, loadVars, filterVars, attackVars>>

CheckMask ==
    /\ spc = "masked"
    /\ valid' = check_mask(mask) /\ spc' = "checked"
    /\ UNCHANGED <<fill, mask, mask_src, loadVars, filterVars, attackVars>>

NextSign == FindSignArea \/ CallerMask \/ CheckMask

SpecSign == InitSign /\ [][NextSign]_vars

----------------------------------------------------------------------------
(* load_samples.  An image stands for what canny and binary_fill_holes     *)
(* make of rgb2gray(image): its filled edge image.  The loop is one action *)
(* per iteration; what follows the loop is one action.                     *)

\* np.delete(a, idx, axis=0): a without the elements whose index is in idx
np_delete(a, idx) ==
    LET keep(i) == \A k \in 1..Len(idx) : idx[k] # i - 1
        F[n \in 0..Len(a)] ==
            IF n = 0 THEN <<>>
            ELSE IF keep(n) THEN Append(F[n - 1], a[n]) ELSE F[n - 1]
    IN F[Len(a)]

IMAGE_SIZE == "IMAGE_SIZE"

\* resize(image, interp): scipy's imresize to IMAGE_SIZE, kept as a term
resize(image, interp) == [resized |-> image, size |-> IMAGE_SIZE, interp |-> interp]

\* resize_all(images, interp) of a non-empty list (images[0] is read first)
resize_all(imgs, interp) == [k \in 1..Len(imgs) |-> resize(imgs[k], interp)]

\* keras.utils.to_categorical of a list of classes
to_categorical(ys, n) ==
    [k \in 1..Len(ys) |-> [c \in 0..(n - 1) |-> IF c = ys[k] THEN 1 ELSE 0]]

\* the images of shape h x w whose filled edge image is the first k pixels
\* of the scan, or the last k
ImageFills(h, w) ==
    {Arr(h, w, [p \in Pix(h, w) |-> IF Ravel(p, w) <= k THEN 1 ELSE 0]) : k \in 0..(h * w)}
    \cup
    {Arr(h, w, [p \in Pix(h, w) |-> IF Ravel(p, w) > k THEN 1 ELSE 0]) : k \in 0..(h * w)}

\* label lists of length n: the classes in rotation from a first class o
LabelLists(n) == {[k \in 1..n |-> (k - 1 + o) % NUM_LABELS] : o \in 0..(NUM_LABELS - 1)}

InitLoad ==
    /\ \E n \in 0..MaxImages :
          /\ images \in [1..n -> ImageFills(MaxH, MaxH)]
          /\ labels \in LabelLists(n)
    /\ li = 0 /\ ex_ind = <<>> /\ masks_full = <<>> /\ lpc = "loop" /\ lret = NoValue
    /\ SignIdle /\ FilterIdle /\ AttackIdle

\* (mutant) an invalid mask is dropped without recording its index
LoadIter_unrecorded ==
    /\ lpc = "loop" /\ li < Len(images)
    /\ LET m == find_sign_area(images[li + 1])
       IN IF check_mask(m)
          THEN masks_full' = Append(masks_full, m) /\ UNCHANGED ex_ind
          ELSE UNCHANGED <<masks_full, ex_ind>>
    /\ li' = li + 1
    /\ UNCHANGED <<images, labels, lpc, lret, signVars, filterVars, attackVars>>

\* one iteration of "for i, image in enumerate(images)"
LoadIter ==
    /\ lpc = "loop" /\ li < Len(images)
    /\ LET m == find_sign_area(images[li + 1])
       IN IF check_mask(m)
          THEN masks_full' = Append(masks_full, m) /\ UNCHANGED ex_ind
          ELSE ex_ind' = Append(ex_ind, li) /\ UNCHANGED masks_full
    /\ li' = li + 1
    /\ UNCHANGED <<images, labels, lpc, lret, signVars, filterVars, attackVars>>

\* after the loop: resize_all(masks_full) reads images[0] and raises
\* IndexError when no mask was kept
LoadRaise ==
    /\ lpc = "loop" /\ li = Len(images)
    /\ masks_full = <<>>
    /\ lpc' = "error"
    /\ UNCHANGED <<images, labels, li, ex_ind, masks_full, lret, signVars, filterVars, attackVars>>

\* after the loop: resize, exclude, encode, return
LoadReturn ==
    /\ lpc = "loop" /\ li = Len(images)
    /\ masks_full # <<>>
    /\ LET masks == resize_all(masks_full, "nearest")
           x_ben_full == np_delete(images, ex_ind)
           y_ben0 == np_delete(labels, ex_ind)
           x_ben == resize_all(x_ben_full, "bilinear")
           y_ben == to_categorical(y_ben0, NUM_LABELS)
       IN lret' = [x_ben |-> x_ben, x_ben_full |-> x_ben_full, y_ben |-> y_ben,
                   masks |-> masks, masks_full |-> masks_full]
    /\ lpc' = "done"
    /\ UNCHANGED <<images, labels, li, ex_ind, masks_full, signVars, filterVars, attackVars>>

NextLoad == LoadIter \/ LoadRaise \/ LoadReturn

SpecLoad == InitLoad /\ [][NextLoad]_vars

----------------------------------------------------------------------------
(* filter_samples *)

\* to_class(y): np.argmax(y, axis=1)
to_class(rows) == [k \in 1..Len(rows) |-> np_argmax(rows[k])]

\* np.where(a != b)[0] and np.where(a == b)[0] of two 1-D arrays of one
\* length: the indices, ascending
np_where_ne(a, b) ==
    LET F[n \in 0..Len(a)] ==
            IF n = 0 THEN <<>>
            ELSE IF a[n] # b[n] THEN Append(F[n - 1], n - 1) ELSE F[n - 1]
    IN F[Len(a)]

np_where_eq(a, b) ==
    LET F[n \in 0..Len(a)] ==
            IF n = 0 THEN <<>>
            ELSE IF a[n] = b[n] THEN Append(F[n - 1], n - 1) ELSE F[n - 1]
    IN F[Len(a)]

RECURSIVE np_sort(_)
\* np.sort of a 1-D array: ascending, equal elements kept
np_sort(a) ==
    IF a = <<>> THEN <<>>
    ELSE LET i == CHOOSE i \in 1..Len(a) : \A j \in 1..Len(a) : a[i] <= a[j]
         IN <<a[i]>> \o np_sort(SubSeq(a, 1, i - 1) \o SubSeq(a, i + 1, Len(a)))

RECURSIVE AscendingOf(_)
\* the elements of a set of numbers, ascending
AscendingOf(S) ==
    IF S = {} THEN <<>>
    ELSE LET m == CHOOSE m \in S : \A e \in S : m <= e
         IN <<m>> \o AscendingOf(S \ {m})

\* np.unique of a 1-D array: its distinct elements, ascending
np_unique(a) == AscendingOf({a[k] : k \in 1..Len(a)})

\* (mutant) the indices of the two conditions are joined and sorted, and
\* duplicates stay
del_id_duplicates(y_, y_true, y_target) ==
    LET d0 == np_where_ne(y_, y_true)
        d1 == IF y_target # <<>>
              THEN d0 \o np_where_eq(y_, to_class(y_target[1]))
              ELSE d0
    IN np_sort(d1)

\* del_id, from the predicted classes, the true classes and y_target
del_id(y_, y_true, y_target) ==
    LET d0 == np_where_ne(y_, y_true)
        d1 == IF y_target # <<>>
              THEN d0 \o np_where_eq(y_, to_class(y_target[1]))
              ELSE d0
    IN np_sort(np_unique(d1))

filter_samples(pred, xs, ys, y_target) ==
    LET d == del_id(to_class(pred), to_class(ys), y_target)
    IN <<np_delete(xs, d), np_delete(ys, d), d>>

\* the one-hot rows over the label space
OneHot == {[c \in 0..(NUM_LABELS - 1) |-> IF c = l THEN 1 ELSE 0] : l \in 0..(NUM_LABELS - 1)}

\* rows of class scores: all the mass on one class, or the same score for
\* every class (a tie, which argmax gives to class 0)
ScoreRows == OneHot \cup {[c \in 0..(NUM_LABELS - 1) |-> 1]}

InitFilter ==
    /\ \E n \in 1..MaxSamples :
          /\ fx = [k \in 1..n |-> k]
          /\ fy \in [1..n -> OneHot]
          /\ fpred \in [1..n -> ScoreRows]
          /\ fy_target \in {<<>>} \cup {<<t>> : t \in [1..n -> OneHot]}
    /\ fpc = "call" /\ fret = NoValue
    /\ SignIdle /\ LoadIdle /\ AttackIdle

FilterSamples ==
    /\ fpc = "call"
    /\ fret' = filter_samples(fpred, fx, fy, fy_target)
    /\ fpc' = "done"
    /\ UNCHANGED <<fx, fy, fpred, fy_target, signVars, loadVars, attackVars>>

NextFilter == FilterSamples

SpecFilter == InitFilter /\ [][NextFilter]_vars

----------------------------------------------------------------------------
(* float32 arithmetic, in fixed point.  A float is a number v / Scale or   *)
(* NaN.  NaN is absorbing, as in IEEE 754; 0 / 0 is NaN and raises         *)
(* nothing: numpy divides an array by a numpy scalar without raising       *)
(* ZeroDivisionError.  x / 0 for x # 0 is an infinity, which the one       *)
(* division of the program, an array by its own norm, never meets.         *)

F(v) == [nan |-> FALSE, v |-> v]
NaN == [nan |-> TRUE, v |-> 0]

\* n / d rounded towards 0
Trunc(n, d) == IF n >= 0 THEN n \div d ELSE -((-n) \div d)

FNeg(a) == IF a.nan THEN NaN ELSE F(-a.v)
FAdd(a, b) == IF a.nan \/ b.nan THEN NaN ELSE F(a.v + b.v)
FMul(a, b) == IF a.nan \/ b.nan THEN NaN ELSE F(Trunc(a.v * b.v, Scale))
FDiv(a, b) ==
    IF a.nan \/ b.nan THEN NaN
    ELSE IF b.v = 0 THEN NaN
    ELSE F(Trunc(a.v * Scale, b.v))

\* a float times an element 0 or 1 of a mask
FMulMask(a, k) == IF a.nan THEN NaN ELSE F(a.v * k)

\* np.clip(a, 0, 1) of one element: NaN stays NaN
np_clip(a) ==
    IF a.nan THEN NaN
    ELSE IF a.v < 0 THEN F(0) ELSE IF a.v > Scale THEN F(Scale) ELSE a

\* the elements (pixel, channel) of a sample
Elems == Pix(SampleH, SampleW) \X (1..N_CHANNEL)

ISqrt(n) == CHOOSE r \in 0..n : r * r <= n /\ n < (r + 1) * (r + 1)

\* np.linalg.norm(a): the L2 norm over all elements
np_linalg_norm(a) ==
    IF \E e \in Elems : a[e].nan THEN NaN
    ELSE F(ISqrt(SetSum([e \in Elems |-> a[e].v * a[e].v], Elems)))

\* np.repeat(mask[i, :, :, np.newaxis], N_CHANNEL, axis=2)
mask_rep(m) == [e \in Elems |-> m[e[1]]]

\* the gradient of one step: sign, mask, normalisation.  g is what
\* gradient_input returned, negate whether it is multiplied by -1, m the
\* masks (<<>> for None) and k the index of the sample (0-based)
GradientStep(g, negate, m, k) ==
    LET signed == IF negate THEN [e \in Elems |-> FNeg(g[e])] ELSE g
        masked == IF m # <<>>
                  THEN [e \in Elems |-> FMulMask(signed[e], mask_rep(m[1][k + 1])[e])]
                  ELSE signed
        nrm == np_linalg_norm(masked)
    IN [g |-> g, signed |-> signed, masked |-> masked, nrm |-> nrm,
        grad |-> [e \in Elems |-> FDiv(masked[e], nrm)]]

\* fg: "if target:"
fg_negates(t) == t

\* iterative: "if target is not None:", which holds of True and of False
iterative_negates(t) == t \in BOOLEAN

\* np.clip over a whole sample
ClipSample(a) == [e \in Elems |-> np_clip(a[e])]

----------------------------------------------------------------------------
(* The inputs of an attack *)

PixelVals == {0, Scale \div 2, Scale}

\* samples with elements in [0, 1]: one value throughout
SampleSet == {[e \in Elems |-> F(v)] : v \in PixelVals}

MaskSet == [Pix(SampleH, SampleW) -> {0, 1}]

\* what the gradient oracle may return at a sample without NaN: a gradient
\* with one value, -1, 0 or 1, per pixel
GradSet ==
    {[e \in Elems |-> F(gv[e[1]])] : gv \in [Pix(SampleH, SampleW) -> {-Scale, 0, Scale}]}

\* gradient_input(grad_fn, x, y): any gradient; at a sample with NaN it may
\* also be NaN throughout
Oracle(a) ==
    IF \E e \in Elems : a[e].nan THEN GradSet \cup {[e \in Elems |-> NaN]} ELSE GradSet

Mags == {F(0), F(Scale \div 2), F(2 * Scale)}
\* the ascending lists of magnitudes
MagLists ==
    {l \in UNION {[1..n -> Mags] : n \in 1..MaxMags} :
        \A k \in 1..(Len(l) - 1) : l[k].v < l[k + 1].v}
StepSizes == {F(0), F(Scale \div 2), F(-Scale)}

ZeroSample == [e \in Elems |-> F(0)]

InitCommon ==
    /\ \E n \in 1..MaxBatch :
          /\ x \in [1..n -> SampleSet]
          /\ amask \in {<<>>} \cup {<<m>> : m \in [1..n -> MaskSet]}
    /\ target \in BOOLEAN
    /\ ai = 0 /\ step = 0 /\ x_cur = <<>> /\ loc = <<>> /\ apc = "sample"
    /\ SignIdle /\ LoadIdle /\ FilterIdle

\* a call of fg; x_adv = np.zeros((len(mag_list),) + x.shape)
InitFg ==
    /\ attack = "fg"
    /\ InitCommon
    /\ mag_list \in MagLists
    /\ n_step = 0 /\ step_size = F(0)
    /\ x_adv = [j \in 1..Len(mag_list) |-> [k \in 1..Len(x) |-> ZeroSample]]

\* a call of iterative; x_adv = np.zeros(x.shape)
InitIter ==
    /\ attack = "iterative"
    /\ InitCommon
    /\ mag_list = <<>>
    /\ n_step \in 0..MaxStep /\ step_size \in StepSizes
    /\ Len(x) * n_step <= MaxGradCalls
    /\ x_adv = [k \in 1..Len(x) |-> ZeroSample]

\* fg: one iteration of "for i, x_in in enumerate(x)"
FgSample ==
    /\ attack = "fg" /\ apc = "sample" /\ ai < Len(x)
    /\ \E g \in Oracle(x[ai + 1]) :
          LET x_in == x[ai + 1]
              st == GradientStep(g, fg_negates(target), amask, ai)
          IN /\ x_adv' = [j \in 1..Len(mag_list) |->
                            [x_adv[j] EXCEPT ![ai + 1] =
                                [e \in Elems |-> FAdd(x_in[e], FMul(st.grad[e], mag_list[j]))]]]
             /\ loc' = <<st>>
    /\ ai' = ai + 1
    /\ UNCHANGED <<attack, x, amask, target, mag_list, n_step, step_size, step, x_cur, apc>>
    /\ UNCHANGED <<signVars, loadVars, filterVars>>

\* fg: after the loop, clip and return
FgReturn ==
    /\ attack = "fg" /\ apc = "sample" /\ ai = Len(x)
    /\ x_adv' = [j \in 1..Len(mag_list) |-> [k \in 1..Len(x) |-> ClipSample(x_adv[j][k])]]
    /\ apc' = "done"
    /\ UNCHANGED <<attack, x, amask, target, mag_list, n_step, step_size, ai, step, x_cur, loc>>
    /\ UNCHANGED <<signVars, loadVars, filterVars>>

\* iterative: the head of "for i, x_in in enumerate(x)": x_cur = np.copy(x_in)
IterBegin ==
    /\ attack = "iterative" /\ apc = "sample" /\ ai < Len(x)
    /\ x_cur' = x[ai + 1]
    /\ step' = 0
    /\ apc' = "step"
    /\ UNCHANGED <<attack, x, amask, target, mag_list, n_step, step_size, ai, x_adv, loc>>
    /\ UNCHANGED <<signVars, loadVars, filterVars>>

\* iterative: one iteration of "for _ in range(n_step)"
IterStep ==
    /\ attack = "iterative" /\ apc = "step" /\ step < n_step
    /\ \E g \in Oracle(x_cur) :
          LET st == GradientStep(g, iterative_negates(target), amask, ai)
          IN /\ x_cur' = ClipSample([e \in Elems |-> FAdd(x_cur[e], FMul(st.grad[e], step_size))])
             /\ loc' = <<st>>
    /\ step' = step + 1
    /\ UNCHANGED <<attack, x, amask, target, mag_list, n_step, step_size, ai, x_adv, apc>>
    /\ UNCHANGED <<signVars, loadVars, filterVars>>

\* iterative: after the steps, x_adv[i] = np.copy(x_cur)
IterStore ==
    /\ attack = "iterative" /\ apc = "step" /\ step = n_step
    /\ x_adv' = [x_adv EXCEPT ![ai + 1] = x_cur]
    /\ ai' = ai + 1
    /\ apc' = "sample"
    /\ UNCHANGED <<attack, x, amask, target, mag_list, n_step, step_size, step, x_cur, loc>>
    /\ UNCHANGED <<signVars, loadVars, filterVars>>

\* iterative: after the loop, return x_adv
IterReturn ==
    /\ attack = "iterative" /\ apc = "sample" /\ ai = Len(x)
    /\ apc' = "done"
    /\ UNCHANGED <<attack, x, amask, target, mag_list, n_step, step_size, ai, step,
                   x_cur, x_adv, loc>>
    /\ UNCHANGED <<signVars, loadVars, filterVars>>

InitAttack == InitFg \/ InitIter

NextAttack == FgSample \/ FgReturn \/ IterBegin \/ IterStep \/ IterStore \/ IterReturn

SpecAttack == InitAttack /\ [][NextAttack]_vars

----------------------------------------------------------------------------
(* Properties of the mask pipeline *)

\* number of pixels of m that are 1
Ones(m) == Cardinality({p \in Pix(m.h, m.w) : m.a[p] = 1})

\* the labels of the components of the labelled image lab, and the pixel
\* count of label l
Labels(lab) == {lab.a[p] : p \in Pix(lab.h, lab.w)} \ {0}
CountOf(lab, l) == Cardinality({p \in Pix(lab.h, lab.w) : lab.a[p] = l})

\* the lowest label among those of the largest pixel count
Largest(lab) ==
    LET cnt == [l \in Labels(lab) |-> CountOf(lab, l)]
    IN CHOOSE l \in Labels(lab) : \A m \in Labels(lab) :
           cnt[l] > cnt[m] \/ (cnt[l] = cnt[m] /\ l <= m)

\* C6: check_mask(mask) is true iff 0.1 < sum(mask) / (height * width) < 0.9,
\* both inequalities strict: ratio exactly 0.1 or 0.9, ratio 0 and ratio 1
\* are rejected.
C6_CheckMaskStrict ==
    spc = "checked" =>
        LET k == Ones(mask)
            n == mask.h * mask.w
        IN /\ valid <=> (10 * k > n /\ 10 * k < 9 * n)
           /\ (10 * k = n \/ 10 * k = 9 * n \/ k = 0 \/ k = n) => ~valid

\* C6 (witness): check_mask has answered for a mask of area ratio exactly 0.1
C6_Witness ==
    spc = "checked" /\ 10 * Ones(mask) = mask.h * mask.w /\ ~valid

\* C7: when the filled edge image has no non-background component,
\* find_sign_area returns a mask that is 0 at every pixel, and check_mask
\* rejects it.
C7_NoComponentAllZero ==
    (mask_src = "find_sign_area" /\ Foreground(fill) = {}) =>
        /\ \A p \in Pix(mask.h, mask.w) : mask.a[p] = 0
        /\ spc = "checked" => ~valid

\* C8: when there is a non-background component, the mask of find_sign_area
\* is 1 exactly on the pixels of the non-background label of the largest
\* pixel count, the lowest such label on a tie, whatever the size of the
\* background.
C8_LargestComponent ==
    (mask_src = "find_sign_area" /\ Foreground(fill) # {}) =>
        LET lab == ndi_label(fill)
            best == Largest(lab)
        IN /\ mask.h = fill.h /\ mask.w = fill.w
           /\ \A p \in Pix(fill.h, fill.w) :
                 mask.a[p] = IF lab.a[p] = best THEN 1 ELSE 0

\* C8 (witness): two components tie for the largest count, and the
\* background is larger than either
C8_Witness ==
    /\ mask_src = "find_sign_area" /\ Foreground(fill) # {}
    /\ LET lab == ndi_label(fill)
           best == Largest(lab)
       IN /\ \E l \in Labels(lab) : l # best /\ CountOf(lab, l) = CountOf(lab, best)
          /\ CountOf(lab, 0) > CountOf(lab, best)

\* the positions (1-based) of the images whose generated mask is valid
KeptPos == {k \in 1..Len(images) : check_mask(find_sign_area(images[k]))}

\* the j-th smallest element of the set S of numbers
Nth(S, j) == CHOOSE e \in S : Cardinality({d \in S : d <= e}) = j

\* C10: what load_samples returns is aligned: as many masks as images and
\* labels, the k-th mask generated from the k-th kept image, every kept
\* mask valid, and an image excluded iff its generated mask is not valid.
C10_LoadAligned ==
    lpc = "done" =>
        LET kept == KeptPos
            n == Cardinality(kept)
            pos == [k \in 1..n |-> Nth(kept, k)]
        IN
        /\ Len(lret.masks_full) = n /\ Len(lret.masks) = n
        /\ Len(lret.x_ben_full) = n /\ Len(lret.x_ben) = n /\ Len(lret.y_ben) = n
        /\ \A k \in 1..n :
              /\ lret.x_ben_full[k] = images[pos[k]]
              /\ lret.x_ben[k].resized = lret.x_ben_full[k]
              /\ lret.masks_full[k] = find_sign_area(lret.x_ben_full[k])
              /\ lret.masks[k].resized = lret.masks_full[k]
              /\ check_mask(lret.masks_full[k])
              /\ lret.y_ben[k][labels[pos[k]]] = 1
              /\ \A c \in DOMAIN lret.y_ben[k] :
                    c # labels[pos[k]] => lret.y_ben[k][c] = 0
        /\ {ex_ind[k] + 1 : k \in 1..Len(ex_ind)} = (1..Len(images)) \ kept

\* C10 (witness): load_samples has returned with the first image excluded
\* and a later one kept
C10_Witness ==
    /\ lpc = "done" /\ Len(ex_ind) > 0 /\ ex_ind[1] = 0
    /\ Len(lret.masks_full) > 0 /\ Len(images) > Len(lret.masks_full)

\* the class of a row of scores: the lowest index holding the largest score
ClassOf(row) ==
    CHOOSE c \in DOMAIN row :
        /\ \A d \in DOMAIN row : row[d] <= row[c]
        /\ \A d \in DOMAIN row : d < c => row[d] < row[c]

\* the indices (0-based) filter_samples is to remove
ToRemove ==
    {i \in 0..(Len(fx) - 1) :
        \/ ClassOf(fpred[i + 1]) # ClassOf(fy[i + 1])
        \/ fy_target # <<>> /\ ClassOf(fpred[i + 1]) = ClassOf(fy_target[1][i + 1])}

ToKeep == (0..(Len(fx) - 1)) \ ToRemove

----------------------------------------------------------------------------
(* Properties of the attacks *)

\* a float in [0, 1]
InUnit(a) == ~a.nan /\ 0 <= a.v /\ a.v <= Scale

\* the masked-out elements of sample k (1-based)
MaskedOut(k) == {e \in Elems : amask # <<>> /\ amask[1][k][e[1]] = 0}

\* C1: in iterative, x_cur is elementwise in [0, 1] after each step, and
\* every element of the returned batch is in [0, 1], whatever the gradient
\* (an all-zero one or one zeroed by the mask included), n_step and step_size.
C1_IterativeInUnit ==
    attack = "iterative" =>
        /\ (apc = "step" /\ step > 0) => \A e \in Elems : InUnit(x_cur[e])
        /\ apc = "done" => \A k \in 1..Len(x) : \A e \in Elems : InUnit(x_adv[k][e])

\* C2: every element of the batch fg returns is in [0, 1], for every
\* sample, magnitude and mask, an all-zero mask included.
C2_FgInUnit ==
    (attack = "fg" /\ apc = "done") =>
        \A j \in 1..Len(mag_list) : \A k \in 1..Len(x) : \A e \in Elems :
            InUnit(x_adv[j][k][e])

\* C3: in fg and in iterative, a (sign-adjusted, masked) gradient of L2 norm
\* zero ends the processing of the sample in a signalled error; the call
\* returns no batch with NaN in it.
C3_ZeroNormSignalled ==
    /\ (loc # <<>> /\ loc[1].nrm = F(0)) => apc = "error"
    /\ (attack = "fg" /\ apc = "done") =>
          \A j \in 1..Len(mag_list) : \A k \in 1..Len(x) : \A e \in Elems :
              ~x_adv[j][k][e].nan
    /\ (attack = "iterative" /\ apc = "done") =>
          \A k \in 1..Len(x) : \A e \in Elems : ~x_adv[k][e].nan

\* C4: fg and iterative both step along -g when target is True and along g
\* when target is False, g being what the oracle returned; iterative does so
\* at every step.
C4_SignConvention ==
    loc # <<>> =>
        \A e \in Elems :
            loc[1].signed[e] = IF target THEN FNeg(loc[1].g[e]) ELSE loc[1].g[e]

\* C5: with a mask, every element of a pixel whose mask is 0 keeps the
\* clipped input value, in every magnitude slot of fg and after every step
\* of iterative.
C5_MaskFrame ==
    /\ (attack = "fg" /\ apc = "done") =>
          \A j \in 1..Len(mag_list) : \A k \in 1..Len(x) : \A e \in MaskedOut(k) :
              x_adv[j][k][e] = np_clip(x[k][e])
    /\ (attack = "iterative" /\ apc = "step") =>
          \A e \in MaskedOut(ai + 1) : x_cur[e] = np_clip(x[ai + 1][e])
    /\ (attack = "iterative" /\ apc = "done") =>
          \A k \in 1..Len(x) : \A e \in MaskedOut(k) : x_adv[k][e] = np_clip(x[k][e])

====
